---- MODULE Spec2Model ----
(***************************************************************************)
(* picotool-mcp-server: the command composition (PicotoolWrapper.info,     *)
(* .reboot, .version), the subprocess executor (_run_command) and the      *)
(* request handler (call_tool) of src/picotool_mcp_server.                 *)
(*                                                                         *)
(* Python values are represented as follows.                               *)
(*   str          a TLA+ string where the text is a literal or an argument *)
(*                passed through unchanged; a sequence of Unicode code     *)
(*                points where the program decodes and trims it.           *)
(*   bytes        a sequence of numbers 0..255.                            *)
(*   None         the value None below, a string no argument ever equals.  *)
(*   dict         a function whose DOMAIN is the set of keys present.      *)
(*   message      a sequence of pieces (Lit, Str, Exc): an f-string is the *)
(*                concatenation of its literal and interpolated pieces.    *)
(***************************************************************************)
EXTENDS Integers, Sequences, FiniteSets, TLC

VARIABLES
    server,     \* server.py module state: "importing", "serving", "crashed"
    picotool,   \* the module-level PicotoolWrapper (server.py:21), or NoWrapper
    calls,      \* one record per call_tool coroutine
    procs       \* the child processes created by create_subprocess_exec

vars == <<server, picotool, calls, procs>>

\* ------------------------------------------------------------------ values

None == "<None>"

\* `if x:` on an Optional[str] or a str
Truthy(x) == x # None /\ x # ""

\* dict.get(key, default)
Get(d, key, default) == IF key \in DOMAIN d THEN d[key] ELSE default

\* the arguments value None of call_tool (server.py:283)
NoneArguments == [None |-> TRUE]

EmptyDict == [k \in {} |-> FALSE]

\* ------------------------------------------------------- command composer

\* picotool.py:105-120
InfoOptionFlagsAllIgnored(kw) ==
    (IF kw.all THEN <<"-a">> ELSE <<>>)
    \o (IF kw.basic THEN <<"-b">> ELSE <<>>)
    \o (IF kw.metadata THEN <<"-m">> ELSE <<>>)
    \o (IF kw.pins THEN <<"-p">> ELSE <<>>)
    \o (IF kw.device THEN <<"-d">> ELSE <<>>)
    \o (IF kw.debug THEN <<"--debug">> ELSE <<>>)
    \o (IF kw.build THEN <<"-l">> ELSE <<>>)

InfoOptionFlagsPinsFirst(kw) ==
    IF kw.all
    THEN <<"-a">>
    ELSE (IF kw.pins THEN <<"-p">> ELSE <<>>)
         \o (IF kw.basic THEN <<"-b">> ELSE <<>>)
         \o (IF kw.metadata THEN <<"-m">> ELSE <<>>)
         \o (IF kw.device THEN <<"-d">> ELSE <<>>)
         \o (IF kw.debug THEN <<"--debug">> ELSE <<>>)
         \o (IF kw.build THEN <<"-l">> ELSE <<>>)

InfoOptionFlags(kw) ==
    IF kw.all
    THEN <<"-a">>
    ELSE (IF kw.basic THEN <<"-b">> ELSE <<>>)
         \o (IF kw.metadata THEN <<"-m">> ELSE <<>>)
         \o (IF kw.pins THEN <<"-p">> ELSE <<>>)
         \o (IF kw.device THEN <<"-d">> ELSE <<>>)
         \o (IF kw.debug THEN <<"--debug">> ELSE <<>>)
         \o (IF kw.build THEN <<"-l">> ELSE <<>>)

\* picotool.py:122-124
TargetArgAlways(kw) == <<kw.target>>

TargetArg(kw) == IF Truthy(kw.target) THEN <<kw.target>> ELSE <<>>

\* picotool.py:180-188
RebootOptions(kw) ==
    (IF kw.all_devices THEN <<"-a">> ELSE <<>>)
    \o (IF kw.usb_mass_storage THEN <<"-u">> ELSE <<>>)
    \o (IF Truthy(kw.partition) THEN <<"-g", kw.partition>> ELSE <<>>)
    \o (IF Truthy(kw.cpu) THEN <<"-c", kw.cpu>> ELSE <<>>)

\* picotool.py:126-136 and 190-200
DeviceSelectionVidFirst(kw) ==
    (IF Truthy(kw.vid) THEN <<"--vid", kw.vid>> ELSE <<>>)
    \o (IF Truthy(kw.bus) THEN <<"--bus", kw.bus>> ELSE <<>>)
    \o (IF Truthy(kw.address) THEN <<"--address", kw.address>> ELSE <<>>)
    \o (IF Truthy(kw.pid) THEN <<"--pid", kw.pid>> ELSE <<>>)
    \o (IF Truthy(kw.serial) THEN <<"--ser", kw.serial>> ELSE <<>>)

DeviceSelection(kw) ==
    (IF Truthy(kw.bus) THEN <<"--bus", kw.bus>> ELSE <<>>)
    \o (IF Truthy(kw.address) THEN <<"--address", kw.address>> ELSE <<>>)
    \o (IF Truthy(kw.vid) THEN <<"--vid", kw.vid>> ELSE <<>>)
    \o (IF Truthy(kw.pid) THEN <<"--pid", kw.pid>> ELSE <<>>)
    \o (IF Truthy(kw.serial) THEN <<"--ser", kw.serial>> ELSE <<>>)

\* picotool.py:138-142 and 202-206
ForceOptionsBoth(kw) ==
    (IF kw.force THEN <<"-f">> ELSE <<>>)
    \o (IF kw.force_no_reboot THEN <<"-F">> ELSE <<>>)

ForceOptions(kw) ==
    IF kw.force THEN <<"-f">>
    ELSE IF kw.force_no_reboot THEN <<"-F">>
    ELSE <<>>

\* PicotoolWrapper.info, picotool.py:103-142: the args handed to _run_command
infoForceFirst(kw) ==
    <<"info">> \o InfoOptionFlags(kw) \o ForceOptions(kw) \o TargetArg(kw)
    \o DeviceSelection(kw)

info(kw) ==
    <<"info">> \o InfoOptionFlags(kw) \o TargetArg(kw) \o DeviceSelection(kw)
    \o ForceOptions(kw)

\* PicotoolWrapper.reboot, picotool.py:178-206
reboot(kw) ==
    <<"reboot">> \o RebootOptions(kw) \o DeviceSelection(kw) \o ForceOptions(kw)

\* PicotoolWrapper.version, picotool.py:216
version == <<"version">>

\* The methods PicotoolWrapper defines (picotool.py:63, 146, 210); any other
\* attribute lookup on the wrapper raises AttributeError.
WrapperMethods == {"info", "reboot", "version"}

\* ------------------------------------------------------ call_tool: kwargs

\* server.py:288-302
InfoKwargs(a) ==
    [target |-> Get(a, "target", ""),
     basic |-> Get(a, "basic", TRUE),
     metadata |-> Get(a, "metadata", FALSE),
     pins |-> Get(a, "pins", FALSE),
     device |-> Get(a, "device", FALSE),
     debug |-> Get(a, "debug", FALSE),
     build |-> Get(a, "build", FALSE),
     all |-> Get(a, "all", FALSE),
     force |-> Get(a, "force", FALSE),
     force_no_reboot |-> Get(a, "force_no_reboot", FALSE),
     bus |-> Get(a, "bus", None),
     address |-> Get(a, "address", None),
     vid |-> Get(a, "vid", None),
     pid |-> Get(a, "pid", None),
     serial |-> Get(a, "serial", None)]

\* server.py:333-343
RebootKwargs(a) ==
    [all_devices |-> Get(a, "all_devices", FALSE),
     usb_mass_storage |-> Get(a, "usb_mass_storage", FALSE),
     partition |-> Get(a, "partition", None),
     cpu |-> Get(a, "cpu", None),
     force |-> Get(a, "force", FALSE),
     force_no_reboot |-> Get(a, "force_no_reboot", FALSE),
     bus |-> Get(a, "bus", None),
     address |-> Get(a, "address", None),
     vid |-> Get(a, "vid", None),
     pid |-> Get(a, "pid", None),
     serial |-> Get(a, "serial", None)]

\* ----------------------------------------------------------- bytes and str

\* a continuation byte 10xxxxxx
IsCont(b) == b >= 128 /\ b <= 191

\* The length of the well-formed UTF-8 sequence at the head of the non-empty
\* byte string bs, or 0 when there is none (bytes.decode("utf-8") is strict:
\* no overlong forms, no surrogates, nothing above U+10FFFF).
Utf8Len(bs) ==
    LET n == Len(bs)
        b1 == bs[1]
    IN  IF b1 <= 127 THEN 1
        ELSE IF b1 >= 194 /\ b1 <= 223
        THEN IF n >= 2 /\ IsCont(bs[2]) THEN 2 ELSE 0
        ELSE IF b1 >= 224 /\ b1 <= 239
        THEN IF /\ n >= 3
                /\ bs[2] >= (IF b1 = 224 THEN 160 ELSE 128)
                /\ bs[2] <= (IF b1 = 237 THEN 159 ELSE 191)
                /\ IsCont(bs[3])
             THEN 3 ELSE 0
        ELSE IF b1 >= 240 /\ b1 <= 244
        THEN IF /\ n >= 4
                /\ bs[2] >= (IF b1 = 240 THEN 144 ELSE 128)
                /\ bs[2] <= (IF b1 = 244 THEN 143 ELSE 191)
                /\ IsCont(bs[3])
                /\ IsCont(bs[4])
             THEN 4 ELSE 0
        ELSE 0

\* the code point of a well-formed sequence of k bytes at the head of bs
CodePoint(bs, k) ==
    CASE k = 1 -> bs[1]
      [] k = 2 -> (bs[1] % 32) * 64 + (bs[2] % 64)
      [] k = 3 -> (bs[1] % 16) * 4096 + (bs[2] % 64) * 64 + (bs[3] % 64)
      [] OTHER -> (bs[1] % 8) * 262144 + (bs[2] % 64) * 4096
                  + (bs[3] % 64) * 64 + (bs[4] % 64)

\* whether bytes.decode("utf-8") returns (TRUE) or raises UnicodeDecodeError
RECURSIVE Utf8Valid(_)
Utf8Valid(bs) ==
    IF bs = <<>> THEN TRUE
    ELSE LET k == Utf8Len(bs)
         IN  k > 0 /\ Utf8Valid(SubSeq(bs, k + 1, Len(bs)))

\* bytes.decode("utf-8") of a well-formed byte string: its code points
RECURSIVE Utf8Decode(_)
Utf8Decode(bs) ==
    IF bs = <<>> THEN <<>>
    ELSE LET k == Utf8Len(bs)
         IN  <<CodePoint(bs, k)>> \o Utf8Decode(SubSeq(bs, k + 1, Len(bs)))

\* str.isspace of one character: the characters str.strip() removes
IsSpace(c) ==
    \/ c \in {9, 10, 11, 12, 13, 28, 29, 30, 31, 32, 133, 160, 5760}
    \/ (c >= 8192 /\ c <= 8202)
    \/ c \in {8232, 8233, 8239, 8287, 12288}

RECURSIVE LStrip(_)
LStrip(s) ==
    IF s # <<>> /\ IsSpace(s[1]) THEN LStrip(Tail(s)) ELSE s

RECURSIVE RStrip(_)
RStrip(s) ==
    IF s # <<>> /\ IsSpace(s[Len(s)]) THEN RStrip(SubSeq(s, 1, Len(s) - 1)) ELSE s

\* str.strip() with no argument
Strip(s) == RStrip(LStrip(s))

\* ---------------------------------------------------------------- messages

\* a literal part of an f-string, or a str passed through unchanged
Lit(s) == [k |-> "lit", s |-> s, t |-> <<>>]

\* an interpolated str the program computed (code points)
Str(t) == [k |-> "str", s |-> "", t |-> t]

\* str(e) of an exception raised by the runtime or a library
Exc(type) == [k |-> "exc", s |-> type, t |-> <<>>]

\* how a function body ends: it returns a str or raises an exception
\* whose str(e) is msg, at the source line `at`
Return(v) == [kind |-> "return", value |-> v, type |-> "", msg |-> <<>>, at |-> ""]

Raise(type, msg, at) ==
    [kind |-> "raise", value |-> <<>>, type |-> type, msg |-> msg, at |-> at]

NoOutcome == [kind |-> "none", value |-> <<>>, type |-> "", msg |-> <<>>, at |-> ""]

\* -------------------------------------------------------- PicotoolWrapper

\* PicotoolWrapper.__init__ (picotool.py:22-27); which is shutil.which("picotool")
WrapperInit(picotool_path, which) ==
    IF picotool_path = None /\ which = None
    THEN Raise("PicotoolError",
               <<Lit("picotool not found in PATH. Please install picotool.")>>,
               "picotool.py:25")
    ELSE Return(IF picotool_path = None THEN which ELSE picotool_path)

\* _run_command, picotool.py:52-56: the try body once communicate() returned
AfterCommunicateNoStrip(returncode, stdout, stderr) ==
    IF returncode # 0
    THEN IF Utf8Valid(stderr)
         THEN Raise("PicotoolError",
                    <<Lit("picotool command failed: "), Str(Utf8Decode(stderr))>>,
                    "picotool.py:54")
         ELSE Raise("UnicodeDecodeError", <<Exc("UnicodeDecodeError")>>,
                    "picotool.py:53")
    ELSE IF Utf8Valid(stdout)
         THEN Return(Utf8Decode(stdout))
         ELSE Raise("UnicodeDecodeError", <<Exc("UnicodeDecodeError")>>,
                    "picotool.py:56")

AfterCommunicate(returncode, stdout, stderr) ==
    IF returncode # 0
    THEN IF Utf8Valid(stderr)
         THEN Raise("PicotoolError",
                    <<Lit("picotool command failed: "), Str(Strip(Utf8Decode(stderr)))>>,
                    "picotool.py:54")
         ELSE Raise("UnicodeDecodeError", <<Exc("UnicodeDecodeError")>>,
                    "picotool.py:53")
    ELSE IF Utf8Valid(stdout)
         THEN Return(Strip(Utf8Decode(stdout)))
         ELSE Raise("UnicodeDecodeError", <<Exc("UnicodeDecodeError")>>,
                    "picotool.py:56")

\* _run_command, picotool.py:58-61: the except clauses applied to how the try
\* body ended. PicotoolError is an Exception, so the one raised at line 54
\* inside the try body is caught by `except Exception` as well.
ExceptClauses(picotool_path, o) ==
    IF o.kind # "raise" THEN o
    ELSE IF o.type = "FileNotFoundError"
    THEN Raise("PicotoolError",
               <<Lit("picotool binary not found at: "), Lit(picotool_path)>>,
               "picotool.py:59")
    ELSE Raise("PicotoolError", <<Lit("Error running picotool: ")>> \o o.msg,
               "picotool.py:61")

\* the failure kind of the spec's taxonomy that each raise of _run_command is
BinaryNotFound == "picotool.py:59"

CommandFailed == "picotool.py:54"

ExecutionError == "picotool.py:61"

\* ------------------------------------------------------------------ state

CallIds == {1, 2}

Pids == {1, 2}

ToolNames ==
    {"picotool_info", "picotool_reboot", "picotool_version",
     "picotool_partition_info", "picotool_erase"}

\* the wrapper method each branch of call_tool looks up (server.py:306, 347,
\* 372, 394, 428)
Method(name) ==
    CASE name = "picotool_info" -> "info"
      [] name = "picotool_reboot" -> "reboot"
      [] name = "picotool_version" -> "version"
      [] name = "picotool_partition_info" -> "partition_info"
      [] name = "picotool_erase" -> "erase"
      [] OTHER -> ""

\* the operation named in each branch's error text (server.py:327, 364, 377,
\* 408, 445)
ErrorPrefix(name) ==
    CASE name = "picotool_info" -> "Error running picotool info: "
      [] name = "picotool_reboot" -> "Error running picotool reboot: "
      [] name = "picotool_version" -> "Error running picotool version: "
      [] name = "picotool_partition_info" -> "Error running picotool partition info: "
      [] OTHER -> "Error running picotool erase: "

NoWrapper == [picotool_path |-> None]

IdleCall ==
    [pc |-> "idle", name |-> "", arguments |-> EmptyDict, args |-> <<>>,
     cmd |-> <<>>, proc |-> 0, spawned |-> 0, tried |-> NoOutcome,
     outcome |-> NoOutcome, response |-> <<>>, raised |-> ""]

FreeProc ==
    [state |-> "free", argv |-> <<>>, returncode |-> 0, stdout |-> <<>>,
     stderr |-> <<>>]

\* types.TextContent(type="text", text=...)
TextContent(text) == [type |-> "text", text |-> text]

\* call_tool's try/except around one operation (server.py:324-329 and the
\* same lines of the other branches): o is how the awaited wrapper call ended
CallToolNoExcept(name, o) ==
    IF o.kind = "return"
    THEN [response |-> <<TextContent(<<Str(o.value)>>)>>, raised |-> ""]
    ELSE [response |-> <<>>, raised |-> o.type]

CallToolExcept(name, o) ==
    IF o.kind = "return"
    THEN [response |-> <<TextContent(<<Str(o.value)>>)>>, raised |-> ""]
    ELSE [response |-> <<TextContent(<<Lit(ErrorPrefix(name))>> \o o.msg)>>,
          raised |-> ""]

\* the token list the wrapper method composes (picotool.py:103-142, 178-206, 216)
Compose(name, a) ==
    CASE name = "picotool_info" -> info(InfoKwargs(a))
      [] name = "picotool_reboot" -> reboot(RebootKwargs(a))
      [] OTHER -> version

\* the call once the wrapper method it awaited ended with o
Finish(call, o) ==
    LET r == CallToolExcept(call.name, o)
    IN  [call EXCEPT !.pc = "done", !.outcome = o, !.response = r.response,
                     !.raised = r.raised]

\* _run_command's try statement (picotool.py:43-61) whose body ended with
\* `tried`, and call_tool after it
RunCommandEndsRetry(call, picotool_path, tried) ==
    IF tried.kind = "raise" /\ call.spawned < 2
    THEN [call EXCEPT !.pc = "spawn", !.tried = tried]
    ELSE Finish([call EXCEPT !.tried = tried], ExceptClauses(picotool_path, tried))

RunCommandEnds(call, picotool_path, tried) ==
    Finish([call EXCEPT !.tried = tried], ExceptClauses(picotool_path, tried))

\* the local variable `process` of _run_command (picotool.py:44)
ProcessShared(c) == CHOOSE p \in Pids : procs[p].state # "free"

Process(c) == calls[c].proc

Init ==
    /\ server = "importing"
    /\ picotool = NoWrapper
    /\ calls = [c \in CallIds |-> IdleCall]
    /\ procs = [p \in Pids |-> FreeProc]

\* ---------------------------------------------------------------- actions

\* server.py:21 at import: picotool = PicotoolWrapper(). An exception here
\* ends the import, and with it the process, before main() runs.
Startup(which) ==
    /\ server = "importing"
    /\ LET o == WrapperInit(None, which)
       IN  IF o.kind = "raise"
           THEN /\ server' = "crashed"
                /\ picotool' = picotool
           ELSE /\ server' = "serving"
                /\ picotool' = [picotool_path |-> o.value]
    /\ UNCHANGED <<calls, procs>>

\* call_tool (server.py:281-450) up to its first suspension: the await of
\* create_subprocess_exec (picotool.py:44) for a method the wrapper has, the
\* AttributeError of the lookup for one it has not (caught by the branch's
\* except), the ValueError of the final else.
CallTool(c, name, arguments) ==
    /\ server = "serving"
    /\ calls[c].pc = "idle"
    /\ LET a == IF arguments = NoneArguments THEN EmptyDict ELSE arguments
           call == [IdleCall EXCEPT !.name = name, !.arguments = a]
       IN  calls' = [calls EXCEPT ![c] =
             IF name \notin ToolNames
             THEN [call EXCEPT !.pc = "done", !.raised = "ValueError"]
             ELSE IF Method(name) \notin WrapperMethods
             THEN Finish(call, Raise("AttributeError", <<Exc("AttributeError")>>,
                                     "server.py:394,428"))
             ELSE [call EXCEPT !.pc = "spawn",
                               !.args = Compose(name, a),
                               !.cmd = <<picotool.picotool_path>> \o Compose(name, a)]]
    /\ UNCHANGED <<server, picotool, procs>>

\* asyncio.create_subprocess_exec(*cmd, ...) completes (picotool.py:44-48):
\* a child process exists, or the call raised `fault`.
Spawn(c, fault) ==
    /\ calls[c].pc = "spawn"
    /\ IF fault = ""
       THEN LET p == CHOOSE q \in Pids :
                        /\ procs[q].state = "free"
                        /\ \A r \in Pids : procs[r].state = "free" => q <= r
            IN  /\ procs' = [procs EXCEPT ![p] =
                      [FreeProc EXCEPT !.state = "running", !.argv = calls[c].cmd]]
                /\ calls' = [calls EXCEPT ![c].pc = "communicate",
                                          ![c].proc = p,
                                          ![c].spawned = @ + 1]
       ELSE /\ calls' = [calls EXCEPT ![c] =
                  RunCommandEnds(@, picotool.picotool_path,
                                 Raise(fault, <<Exc(fault)>>, "picotool.py:44"))]
            /\ procs' = procs
    /\ UNCHANGED <<server, picotool>>

\* a child process writes its output and exits
ProcessExit(p, returncode, stdout, stderr) ==
    /\ procs[p].state = "running"
    /\ procs' = [procs EXCEPT ![p].state = "exited",
                              ![p].returncode = returncode,
                              ![p].stdout = stdout,
                              ![p].stderr = stderr]
    /\ UNCHANGED <<server, picotool, calls>>

\* process.communicate() completes (picotool.py:50) and _run_command and
\* call_tool run to their end (picotool.py:52-61, server.py:324-329)
Communicate(c, fault) ==
    /\ calls[c].pc = "communicate"
    /\ fault = "" => procs[Process(c)].state = "exited"
    /\ LET pr == procs[Process(c)]
           body == IF fault = ""
                   THEN AfterCommunicate(pr.returncode, pr.stdout, pr.stderr)
                   ELSE Raise(fault, <<Exc(fault)>>, "picotool.py:50")
       IN  calls' = [calls EXCEPT ![c] =
                        RunCommandEnds(@, picotool.picotool_path, body)]
    /\ UNCHANGED <<server, picotool, procs>>

\* call_tool's coroutine is over: the response (or the exception) goes to the
\* protocol layer, and the slot serves the next request
Respond(c) ==
    /\ calls[c].pc = "done"
    /\ calls' = [calls EXCEPT ![c] = IdleCall]
    /\ procs' = [p \in Pids |->
                    IF p = calls[c].proc THEN FreeProc ELSE procs[p]]
    /\ UNCHANGED <<server, picotool>>

\* ------------------------------------------------------------------ inputs

\* the longest output a child process writes, in bytes, when every byte
\* string over Bytes is tried
MaxLen == 2

\* what shutil.which("picotool") finds at import
Which == {None, "/usr/local/bin/picotool"}

\* what create_subprocess_exec may raise; "" is no fault
SpawnFaults == {"", "FileNotFoundError", "PermissionError"}

\* what communicate() may raise; "" is no fault
CommunicateFaults == {"", "BrokenPipeError"}

\* space, "a", and the two bytes of U+00A0 (a space to str.strip); alone or in
\* the wrong order the last two are not UTF-8
Bytes == {32, 97, 194, 160}

ByteStrings == UNION {[1..n -> Bytes] : n \in 0..MaxLen}

\* b"2.0.0\n"
Version200 == <<50, 46, 48, 46, 48, 10>>

\* b" no device found\n"
NoDeviceFound ==
    <<32, 110, 111, 32, 100, 101, 118, 105, 99, 101, 32, 102, 111, 117, 110,
      100, 10>>

Outputs == ByteStrings \cup {Version200, NoDeviceFound}

ExitCodes == {0, 1, -9}

\* the outcomes of a stubbed child process: <<returncode, stdout, stderr>>
StubOutcomes ==
    {<<0, Version200, <<>>>>,
     <<0, <<97, 32>>, <<97>>>>,
     <<1, <<>>, NoDeviceFound>>,
     <<1, <<97>>, <<255>>>>,
     <<0, <<194>>, <<>>>>}

\* requests of every operation, and one naming no operation
Requests ==
    {<<"picotool_version", NoneArguments>>,
     <<"picotool_version", EmptyDict>>,
     <<"picotool_info", EmptyDict>>,
     <<"picotool_info", [target |-> "firmware.uf2", all |-> TRUE, pins |-> TRUE,
                         force |-> TRUE, force_no_reboot |-> TRUE,
                         serial |-> "1"]>>,
     <<"picotool_reboot", [usb_mass_storage |-> TRUE, cpu |-> "ARM",
                           bus |-> "1", force_no_reboot |-> TRUE]>>,
     <<"picotool_partition_info", [family_id |-> "rp2350-arm-s", force |-> TRUE]>>,
     <<"picotool_erase", [all_flash |-> TRUE]>>,
     <<"picotool_erase", [sector |-> "0x10000000", force |-> TRUE]>>,
     <<"picotool_erase", [range_start |-> "0x10000000",
                          range_end |-> "0x10100000"]>>,
     <<"picotool_load", EmptyDict>>}

\* the parameters of picotool_info (server.py:34-103), each over every value
\* that differs for the composer
Targets == {"", "firmware.uf2"}

SelectorValues == {"", "1"}

InfoArguments ==
    [target : Targets, basic : BOOLEAN, metadata : BOOLEAN, pins : BOOLEAN,
     device : BOOLEAN, debug : BOOLEAN, build : BOOLEAN, all : BOOLEAN,
     force : BOOLEAN, force_no_reboot : BOOLEAN,
     bus : SelectorValues, address : SelectorValues, vid : SelectorValues,
     pid : SelectorValues, serial : SelectorValues]

\* the parameters of picotool_reboot (server.py:114-162)
RebootArguments ==
    [all_devices : BOOLEAN, usb_mass_storage : BOOLEAN,
     partition : {"", "1"}, cpu : {"ARM", "RISC-V"},
     force : BOOLEAN, force_no_reboot : BOOLEAN,
     bus : SelectorValues, address : SelectorValues, vid : SelectorValues,
     pid : SelectorValues, serial : SelectorValues]

SelectorKeys == {"bus", "address", "vid", "pid", "serial"}

\* the keys a request leaves out: none, one with a default, the selectors, all
Omitted ==
    {{}, {"basic"}, {"target"}, {"all"}, {"partition", "cpu"},
     {"force", "force_no_reboot"}, SelectorKeys,
     DOMAIN InfoKwargs(EmptyDict) \cup DOMAIN RebootKwargs(EmptyDict)}

\* the dict d without the keys in omit
Without(d, omit) == [k \in DOMAIN d \ omit |-> d[k]]

\* --------------------------------------------------------- specifications

\* requests of two concurrent calls, stubbed child processes
Next ==
    \/ \E w \in Which : Startup(w)
    \/ \E c \in CallIds, r \in Requests : CallTool(c, r[1], r[2])
    \/ \E c \in CallIds, f \in SpawnFaults : Spawn(c, f)
    \/ \E p \in Pids, o \in StubOutcomes : ProcessExit(p, o[1], o[2], o[3])
    \/ \E c \in CallIds, f \in CommunicateFaults : Communicate(c, f)
    \/ \E c \in CallIds : Respond(c)

Spec == Init /\ [][Next]_vars

\* one call at a time, its child process writing any output
NextExec ==
    \/ \E w \in Which : Startup(w)
    \/ \E r \in Requests : CallTool(1, r[1], r[2])
    \/ \E f \in SpawnFaults : Spawn(1, f)
    \/ \E p \in Pids :
          /\ procs[p].state = "running"
          /\ \E rc \in ExitCodes, out \in Outputs, err \in Outputs :
                ProcessExit(p, rc, out, err)
    \/ \E f \in CommunicateFaults : Communicate(1, f)
    \/ Respond(1)

SpecExec == Init /\ [][NextExec]_vars

\* the composer over every combination of the parameters of info and reboot
NextCompose ==
    \/ \E w \in Which : Startup(w)
    \/ /\ calls[1].pc = "idle"
       /\ \E a \in InfoArguments, omit \in Omitted :
             CallTool(1, "picotool_info", Without(a, omit))
    \/ /\ calls[1].pc = "idle"
       /\ \E a \in RebootArguments, omit \in Omitted :
             CallTool(1, "picotool_reboot", Without(a, omit))

SpecCompose == Init /\ [][NextCompose]_vars

\* the selector parameters (server.py:84-103 and 143-162), each with a value
\* of its own
SelectorArguments ==
    [bus : {"", "1"}, address : {"", "2"}, vid : {"", "0x2e8a"},
     pid : {"", "0x000f"}, serial : {"", "E6614103E7"}]

\* the parameters supplied beside the selectors
BesideSelectors ==
    {EmptyDict,
     [target |-> "firmware.uf2", all |-> TRUE, usb_mass_storage |-> TRUE,
      cpu |-> "ARM", force_no_reboot |-> TRUE]}

\* the composer over every selector field absent, empty or set
NextSelect ==
    \/ \E w \in Which : Startup(w)
    \/ /\ calls[1].pc = "idle"
       /\ \E a \in SelectorArguments, omit \in SUBSET SelectorKeys,
             b \in BesideSelectors :
             CallTool(1, "picotool_info", Without(a, omit) @@ b)
    \/ /\ calls[1].pc = "idle"
       /\ \E a \in SelectorArguments, omit \in SUBSET SelectorKeys,
             b \in BesideSelectors :
             CallTool(1, "picotool_reboot", Without(a, omit) @@ b)

SpecSelect == Init /\ [][NextSelect]_vars

\* ------------------------------------------------------------ properties

InfoFlagTokens == {"-a", "-b", "-m", "-p", "-d", "--debug", "-l"}

IndividualInfoFlags == InfoFlagTokens \ {"-a"}

SelectorFlags == {"--bus", "--address", "--vid", "--pid", "--ser"}

ForceFlags == {"-f", "-F"}

\* the number of tokens of t that are in S
Occurrences(t, S) == Cardinality({i \in 1..Len(t) : t[i] \in S})

\* the calls whose token list is composed
ComposedCalls(names) ==
    {c \in CallIds : calls[c].pc # "idle" /\ calls[c].name \in names
                     /\ calls[c].args # <<>>}

\* the keyword arguments call c passed to its wrapper method
KwargsOf(c) ==
    IF calls[c].name = "picotool_info"
    THEN InfoKwargs(calls[c].arguments)
    ELSE RebootKwargs(calls[c].arguments)

\* the tokens an option segment may hold: the flags of the operation and, for
\* reboot, the values of -g and -c
OptionTokens(c) ==
    IF calls[c].name = "picotool_info"
    THEN InfoFlagTokens
    ELSE {"-a", "-u", "-g", "-c", KwargsOf(c).partition, KwargsOf(c).cpu}

SelectorValuesOf(c) ==
    {KwargsOf(c).bus, KwargsOf(c).address, KwargsOf(c).vid, KwargsOf(c).pid,
     KwargsOf(c).serial}

\* t is [operation][options][target][selectors][force]: t[1] is the
\* operation, 2..i the options, i+1..j the target, j+1..k the selector pairs,
\* k+1..Len(t) the force flag
Segmented(c, t) ==
    /\ t[1] = Method(calls[c].name)
    /\ \E i \in 1..Len(t) : \E j \in i..Len(t) : \E k \in j..Len(t) :
          /\ \A m \in 2..i : t[m] \in OptionTokens(c)
          /\ j - i <= 1
          /\ j = i + 1 =>
                calls[c].name = "picotool_info" /\ t[j] = KwargsOf(c).target
          /\ (k - j) % 2 = 0
          /\ \A m \in (j + 1)..k :
                IF (m - j) % 2 = 1
                THEN t[m] \in SelectorFlags
                ELSE t[m] \in SelectorValuesOf(c)
          /\ Len(t) - k <= 1
          /\ \A m \in (k + 1)..Len(t) : t[m] \in ForceFlags

\* C1: for every combination of the parameters of info and reboot the token
\* list is [operation][option flags][target][selector flags][force flag]:
\* the operation first, every option before the target, the target before
\* every selector, every selector before the force flag.
C1_TokenOrder ==
    \A c \in ComposedCalls({"picotool_info", "picotool_reboot"}) :
        Segmented(c, calls[c].args)

\* an info call with options, a target, selectors and a force flag
C1_Witness ==
    /\ calls[1].name = "picotool_info"
    /\ calls[1].args =
          <<"info", "-b", "-m", "firmware.uf2", "--bus", "1", "--ser", "1", "-F">>

\* C2: info composed with all=true holds -a and none of -b, -m, -p, -d,
\* --debug, -l, whatever the other information parameters are; -a and an
\* individual flag are never emitted together.
C2_AllSuppressesIndividual ==
    \A c \in ComposedCalls({"picotool_info"}) :
        /\ KwargsOf(c).all =>
              /\ Occurrences(calls[c].args, {"-a"}) = 1
              /\ Occurrences(calls[c].args, IndividualInfoFlags) = 0
        /\ ~ /\ Occurrences(calls[c].args, {"-a"}) > 0
             /\ Occurrences(calls[c].args, IndividualInfoFlags) > 0

\* all=true together with every individual information parameter true
C2_Witness ==
    /\ calls[1].name = "picotool_info"
    /\ calls[1].pc = "spawn"
    /\ \A k \in {"all", "basic", "metadata", "pins", "device", "debug", "build"} :
          k \in DOMAIN calls[1].arguments /\ calls[1].arguments[k]
    /\ calls[1].args[2] = "-a"

C4_Target ==
    \A c \in ComposedCalls({"picotool_info"}) :
        LET t == calls[c].args
            target == KwargsOf(c).target
            flagged == 1 + Occurrences(t, InfoFlagTokens)
                       + 2 * Occurrences(t, SelectorFlags)
                       + Occurrences(t, ForceFlags)
        IN  IF target = ""
            THEN Len(t) = flagged
            ELSE /\ Len(t) = flagged + 1
                 /\ \E i \in 2..Len(t) :
                       /\ t[i] = target
                       /\ \A m \in 2..Len(t) :
                             /\ m # i => t[m] # target
                             /\ t[m] \in InfoFlagTokens => m < i
                             /\ t[m] \in SelectorFlags => m > i

\* a non-empty target between two option flags and a selector
C4_Witness ==
    /\ calls[1].name = "picotool_info"
    /\ calls[1].pc = "spawn"
    /\ KwargsOf(1).target = "firmware.uf2"
    /\ Len(calls[1].args) >= 5
    /\ SubSeq(calls[1].args, 1, 5) = <<"info", "-b", "-l", "firmware.uf2", "--vid">>

\* the calls whose communicate() returned the output of an exited process
\* with an exit code in rcs: the try body went on to picotool.py:52
ExitedCalls(rcs) ==
    {c \in CallIds :
        /\ calls[c].pc = "done"
        /\ calls[c].proc # 0
        /\ calls[c].tried.at # "picotool.py:50"
        /\ procs[calls[c].proc].returncode \in rcs}

\* the child process of call c
Child(c) == procs[calls[c].proc]

\* C5: a non-zero exit code gives Failure of kind CommandFailed whose message
\* is the trimmed standard-error text, and neither BinaryNotFound nor
\* ExecutionError (stated for a standard error that decodes).
C5_NonZeroExitIsCommandFailed ==
    \A c \in ExitedCalls(ExitCodes \ {0}) :
        Utf8Valid(Child(c).stderr) =>
            /\ calls[c].outcome.kind = "raise"
            /\ calls[c].outcome.at = CommandFailed
            /\ calls[c].outcome.msg =
                  <<Lit("picotool command failed: "),
                    Str(Strip(Utf8Decode(Child(c).stderr)))>>

\* C6 as stated: exit code 0 gives Success carrying the trimmed standard
\* output, and the response is that text.
C6_ZeroExitIsSuccess ==
    \A c \in ExitedCalls({0}) :
        /\ calls[c].outcome.kind = "return"
        /\ calls[c].outcome.value = Strip(Utf8Decode(Child(c).stdout))
        /\ calls[c].response = <<TextContent(<<Str(calls[c].outcome.value)>>)>>

\* C6 as amended: exit code 0 with a standard output that is valid UTF-8
\* gives Success carrying exactly the trimmed standard output, the response
\* is that text, and no standard error is part of it; exit code 0 with a
\* standard output that is not valid UTF-8 gives the failure raised at
\* picotool.py:61.
C6_ZeroExitDecodedIsSuccess ==
    \A c \in ExitedCalls({0}) :
        IF Utf8Valid(Child(c).stdout)
        THEN /\ calls[c].outcome = Return(Strip(Utf8Decode(Child(c).stdout)))
             /\ calls[c].response =
                   <<TextContent(<<Str(Strip(Utf8Decode(Child(c).stdout)))>>)>>
             /\ calls[c].raised = ""
        ELSE /\ calls[c].outcome.kind = "raise"
             /\ calls[c].outcome.at = ExecutionError

\* picotool_version whose process printed b"2.0.0\n" and wrote to its
\* standard error: the response is "2.0.0"
C6_Witness ==
    /\ calls[1].pc = "done"
    /\ calls[1].name = "picotool_version"
    /\ calls[1].proc # 0
    /\ Child(1).returncode = 0
    /\ Child(1).stdout = Version200
    /\ Child(1).stderr = NoDeviceFound
    /\ calls[1].response = <<TextContent(<<Str(<<50, 46, 48, 46, 48>>)>>)>>

\* C7: when the path resolution at process start finds no binary the server
\* still serves, and every call returns Failure of kind BinaryNotFound
\* without spawning a process.
C7_ServesWithoutBinary ==
    server # "importing" =>
        /\ server = "serving"
        /\ picotool = NoWrapper =>
              \A c \in CallIds :
                  calls[c].pc = "done" =>
                      /\ calls[c].outcome.at = BinaryNotFound
                      /\ calls[c].spawned = 0

\* C8: every failure of a request for an operation is caught at the call
\* boundary and returned as one text payload describing it; no exception
\* leaves call_tool, and the server state the later requests read is what
\* startup left.
C8_FailuresCaught ==
    /\ \A c \in CallIds :
          calls[c].pc = "done" /\ calls[c].name \in ToolNames =>
              /\ calls[c].raised = ""
              /\ Len(calls[c].response) = 1
              /\ calls[c].response[1].type = "text"
              /\ calls[c].outcome.kind = "raise" =>
                    calls[c].response[1].text =
                        <<Lit(ErrorPrefix(calls[c].name))>> \o calls[c].outcome.msg
    /\ (\E c \in CallIds : calls[c].pc # "idle") =>
          server = "serving" /\ picotool.picotool_path \in Which \ {None}
    /\ \A c \in CallIds : calls[c].pc = "idle" => calls[c] = IdleCall

\* a failed request answered with its error text beside a request that
\* succeeded
C8_Witness ==
    /\ calls[1].pc = "done"
    /\ calls[1].outcome.kind = "raise"
    /\ calls[1].tried.type = "PermissionError"
    /\ Len(calls[1].response) = 1
    /\ calls[2].pc = "done"
    /\ calls[2].outcome.kind = "return"

\* C9: of two concurrent calls each spawns its own child process with its
\* own token list and reports the outcome of its own process; the resolved
\* binary path is the only state they share, and it stays what startup set.
C9_OwnProcess ==
    /\ \A c \in CallIds :
          calls[c].proc # 0 =>
              /\ Child(c).state # "free"
              /\ Child(c).argv = <<picotool.picotool_path>> \o calls[c].args
              /\ calls[c].args = Compose(calls[c].name, calls[c].arguments)
              /\ \A d \in CallIds \ {c} : calls[d].proc # calls[c].proc
    /\ \A c \in ExitedCalls({0}) :
          Utf8Valid(Child(c).stdout) =>
              calls[c].response =
                  <<TextContent(<<Str(Strip(Utf8Decode(Child(c).stdout)))>>)>>
    /\ \A c \in ExitedCalls(ExitCodes \ {0}) :
          Utf8Valid(Child(c).stderr) =>
              /\ calls[c].outcome.kind = "raise"
              /\ calls[c].response[1].text[Len(calls[c].response[1].text)] =
                    Str(Strip(Utf8Decode(Child(c).stderr)))
    /\ server = "serving" => picotool.picotool_path \in Which \ {None}

\* two calls whose processes were spawned in the other order and ended
\* differently: call 1 succeeded, call 2 failed
C9_Witness ==
    /\ calls[1].pc = "done" /\ calls[2].pc = "done"
    /\ calls[1].proc = 2 /\ calls[2].proc = 1
    /\ Child(1).returncode = 0 /\ Child(2).returncode = 1
    /\ calls[1].outcome.kind = "return"
    /\ calls[2].outcome.kind = "raise"
    /\ calls[1].args # calls[2].args

\* C10: a request for any of the five operations has its token list composed
\* and handed to the executor, which spawns the binary with the operation's
\* subcommand as first argument.
C10_EveryOperationComposed ==
    \A c \in CallIds :
        calls[c].pc # "idle" /\ calls[c].name \in ToolNames =>
            /\ calls[c].args # <<>>
            /\ calls[c].cmd = <<picotool.picotool_path>> \o calls[c].args
            /\ calls[c].outcome.type # "AttributeError"

\* the flag of each selector field
SelectorFlag(key) ==
    CASE key = "bus" -> "--bus"
      [] key = "address" -> "--address"
      [] key = "vid" -> "--vid"
      [] key = "pid" -> "--pid"
      [] OTHER -> "--ser"

\* the place of each selector field in the order bus, address, vid, pid, serial
SelectorRank(key) ==
    CASE key = "bus" -> 1
      [] key = "address" -> 2
      [] key = "vid" -> 3
      [] key = "pid" -> 4
      [] OTHER -> 5

\* the positions of token f in t
Positions(t, f) == {i \in 1..Len(t) : t[i] = f}

\* C11: in the tokens of info and reboot each selector field that is
\* non-empty gives exactly one pair, its flag immediately followed by its
\* value; a field that is empty or absent gives no token; the pairs are in the
\* order bus, address, vid, pid, serial, and nothing but selector pairs stands
\* between the first and the last of them.
C11_SelectorPairs ==
    \A c \in ComposedCalls({"picotool_info", "picotool_reboot"}) :
        LET t == calls[c].args
            a == calls[c].arguments
            set == {k \in SelectorKeys : k \in DOMAIN a /\ a[k] # ""}
        IN  /\ \A k \in SelectorKeys \ set : Positions(t, SelectorFlag(k)) = {}
            /\ \A k \in set :
                  /\ Cardinality(Positions(t, SelectorFlag(k))) = 1
                  /\ Cardinality(Positions(t, a[k])) = 1
                  /\ \A i \in Positions(t, SelectorFlag(k)) :
                        i < Len(t) /\ t[i + 1] = a[k]
            /\ \A k1 \in set, k2 \in set :
                  SelectorRank(k1) < SelectorRank(k2) =>
                      \A i \in Positions(t, SelectorFlag(k1)),
                         j \in Positions(t, SelectorFlag(k2)) : i + 1 < j
            /\ Occurrences(t, SelectorFlags) = Cardinality(set)
            /\ \A i \in 1..Len(t), j \in 1..Len(t) :
                  t[i] \in SelectorFlags /\ t[j] \in SelectorFlags /\ i <= j =>
                      j - i = 2 * Occurrences(SubSeq(t, i, j - 1), SelectorFlags)

\* a reboot given bus, pid and serial, vid empty and address absent
C11_Witness ==
    /\ calls[1].name = "picotool_reboot"
    /\ calls[1].pc = "spawn"
    /\ DOMAIN calls[1].arguments = {"bus", "vid", "pid", "serial"}
    /\ calls[1].arguments.vid = ""
    /\ calls[1].args =
          <<"reboot", "--bus", "1", "--pid", "0x000f", "--ser", "E6614103E7">>

\* the information categories in canonical order, with the default of each
\* parameter and its flag
InfoCategories ==
    <<[key |-> "basic", default |-> TRUE, flag |-> "-b"],
      [key |-> "metadata", default |-> FALSE, flag |-> "-m"],
      [key |-> "pins", default |-> FALSE, flag |-> "-p"],
      [key |-> "device", default |-> FALSE, flag |-> "-d"],
      [key |-> "debug", default |-> FALSE, flag |-> "--debug"],
      [key |-> "build", default |-> FALSE, flag |-> "-l"]>>

\* whether call c requests category n: the parameter's value, its default
\* when the request leaves it out
Requested(c, n) ==
    IF InfoCategories[n].key \in DOMAIN calls[c].arguments
    THEN calls[c].arguments[InfoCategories[n].key]
    ELSE InfoCategories[n].default

\* C12: info composed with all=false emits exactly one flag for each
\* information category whose parameter is true and none for one that is
\* false, the flags are the tokens right after the operation, in the order
\* -b, -m, -p, -d, --debug, -l; a request with no parameters gives exactly
\* info -b.
C12_IndividualFlags ==
    \A c \in ComposedCalls({"picotool_info"}) :
        LET t == calls[c].args
            a == calls[c].arguments
            on == {n \in 1..Len(InfoCategories) : Requested(c, n)}
        IN  /\ ("all" \in DOMAIN a => ~a.all) =>
                  /\ Positions(t, "-a") = {}
                  /\ \A n \in 1..Len(InfoCategories) :
                        Cardinality(Positions(t, InfoCategories[n].flag)) =
                            (IF n \in on THEN 1 ELSE 0)
                  /\ \A n \in on :
                        Positions(t, InfoCategories[n].flag) =
                            {1 + Cardinality({m \in on : m <= n})}
            /\ a = EmptyDict => t = <<"info", "-b">>

\* all=false with every category but metadata requested, basic by default
C12_Witness ==
    /\ calls[1].name = "picotool_info"
    /\ calls[1].pc = "spawn"
    /\ "basic" \notin DOMAIN calls[1].arguments
    /\ "all" \in DOMAIN calls[1].arguments
    /\ Len(calls[1].args) >= 7
    /\ SubSeq(calls[1].args, 1, 7) =
          <<"info", "-b", "-p", "-d", "--debug", "-l", "firmware.uf2">>

\* the pieces of a message
Pieces(msg) == {msg[i] : i \in 1..Len(msg)}

\* The failure kinds an outcome carries. Every failure of _run_command is a
\* PicotoolError; what tells the kinds apart is the text each raise puts in
\* the message (picotool.py:54, 59, 61).
KindsOf(o) ==
    {k \in {BinaryNotFound, CommandFailed, ExecutionError} :
        \/ k = BinaryNotFound /\ Lit("picotool binary not found at: ") \in Pieces(o.msg)
        \/ k = CommandFailed /\ Lit("picotool command failed: ") \in Pieces(o.msg)
        \/ k = ExecutionError /\ Lit("Error running picotool: ") \in Pieces(o.msg)}

\* the calls whose _run_command ended with a failure
FailedCalls ==
    {c \in CallIds : calls[c].pc = "done" /\ calls[c].tried.kind = "raise"}

\* a fault of spawning or communicating is classified by its cause:
\* FileNotFoundError is BinaryNotFound naming the configured path, any other
\* fault (permission denied, broken pipe, decoding error) is ExecutionError
\* with the fault's description
FaultsClassified ==
    \A c \in FailedCalls :
        /\ calls[c].tried.type = "FileNotFoundError" =>
              /\ calls[c].outcome.at = BinaryNotFound
              /\ calls[c].outcome.msg =
                    <<Lit("picotool binary not found at: "),
                      Lit(picotool.picotool_path)>>
              /\ KindsOf(calls[c].outcome) = {BinaryNotFound}
        /\ calls[c].tried.type \notin {"FileNotFoundError", "PicotoolError"} =>
              /\ calls[c].outcome.at = ExecutionError
              /\ calls[c].outcome.msg =
                    <<Lit("Error running picotool: "), Exc(calls[c].tried.type)>>
              /\ KindsOf(calls[c].outcome) = {ExecutionError}

\* every failed outcome carries exactly one failure kind
KindsExclusive ==
    \A c \in FailedCalls : Cardinality(KindsOf(calls[c].outcome)) = 1

\* C13: a fault raised while spawning or communicating is classified by its
\* cause (binary not found at invocation: BinaryNotFound naming the path; any
\* other fault: ExecutionError with its description), and BinaryNotFound,
\* CommandFailed and ExecutionError are mutually exclusive, every failed
\* outcome carrying exactly one of them.
C13_FaultClassification == FaultsClassified /\ KindsExclusive

\* the calls that reached _run_command and are over
ExecutedCalls ==
    {c \in CallIds :
        calls[c].pc = "done" /\ Method(calls[c].name) \in WrapperMethods}

\* C14: a call spawns the binary at most once. A call whose spawn raised has
\* no process, every other call that reached the executor has exactly one,
\* also after a non-zero exit or a fault of communicate; the processes that
\* exist are those of the calls in flight, one each; a call that is over has
\* reported once, with one payload.
C14_SpawnOnce ==
    /\ \A c \in CallIds :
          /\ calls[c].spawned <= 1
          /\ calls[c].spawned = (IF calls[c].proc # 0 THEN 1 ELSE 0)
          /\ calls[c].pc = "communicate" => calls[c].spawned = 1
          /\ calls[c].pc \in {"idle", "spawn"} => calls[c].spawned = 0
    /\ Cardinality({p \in Pids : procs[p].state # "free"}) =
          Cardinality({c \in CallIds : calls[c].proc # 0})
    /\ \A c \in ExecutedCalls :
          /\ calls[c].spawned =
                (IF calls[c].tried.at = "picotool.py:44" THEN 0 ELSE 1)
          /\ Len(calls[c].response) = 1
          /\ calls[c].tried # NoOutcome

\* a call over after its process exited with code 1, beside a call over
\* after its spawn found no binary
C14_Witness ==
    /\ calls[1].pc = "done" /\ calls[2].pc = "done"
    /\ calls[1].proc # 0
    /\ Child(1).returncode = 1
    /\ calls[1].outcome.kind = "raise"
    /\ calls[1].spawned = 1
    /\ calls[2].tried.type = "FileNotFoundError"
    /\ calls[2].spawned = 0
    /\ Cardinality({p \in Pids : procs[p].state # "free"}) = 1

====
